---- MODULE Spec2Model ----
(***************************************************************************)
(* A model of web/src/store/user.ts: the MobX user store (LocalState and   *)
(* the async operations of userStore) and the session bootstrap            *)
(* initialUserStore.                                                        *)
(*                                                                         *)
(* JavaScript is single-threaded: an async function runs without           *)
(* interruption up to its next await, so every operation is cut into one   *)
(* action per stretch of code between awaits.  A call that is suspended at *)
(* an await is an entry of `tasks`, the suspended calls in the order they   *)
(* were made; the remote service is an opaque                              *)
(* collaborator, so what it answers (or that it throws) is chosen when the *)
(* await completes.                                                        *)
(*                                                                         *)
(* state.userMapByName is an object reference.  getOrFetchUserByName and   *)
(* getOrFetchUserByUsername read the reference before their await and      *)
(* spread the referenced object after it, while fetchUsers and deleteUser  *)
(* write into the object the state points to, in place.  A suspended call  *)
(* therefore holds either the very object the state still points to (it    *)
(* sees the in-place writes) or an object the state has been pointed away  *)
(* from, which nothing writes any more: its `userMap` is Live, or the      *)
(* content the object had when setPartial replaced it.                     *)
(***************************************************************************)
EXTENDS Integers, Sequences, FiniteSets, TLC

\* Bounds of the model.
MaxTasks == 2       \* calls suspended at an await at the same time
MaxList == 2        \* entities in one listing or search response

\* Resource names, usernames and the User message (name, username).
Names == {"users/1", "users/2"}
Usernames == {"alice", "bob"}
User == [name : Names, username : Usernames]
\* Partial<User>: what a caller of updateUser passes, here the name of the
\* account with the username to set.
PartialUser == [name : Names, username : Usernames]

\* `undefined` for the optional string currentUser and for optional objects.
undefined == "undefined"
NoObject == [undefined |-> TRUE]

\* The UserSetting message: name (the account it belongs to), locale, appearance.
Locales == {"en", "zh-Hans"}
Appearances == {"system", "dark"}
SettingFields == {"name", "locale", "appearance"}
UserSetting == [name : Names, locale : Locales, appearance : Appearances]
\* Partial<UserSetting>: what a caller of updateUserSetting passes, with a
\* name of its own choosing or none.
PartialUserSetting == [locale : Locales] \cup [name : Names, locale : Locales]

\* navigator.language
BrowserLanguages == {"en-US", "zh-CN"}

\* The Shortcut message: its resource name is <parent>/shortcuts/<id>.
ShortcutIds == {"a", "b"}
Shortcut == [parent : Names, id : ShortcutIds]

\* The Inbox message: name, receiver (the account whose inbox lists it), status.
InboxNames == {"inboxes/1", "inboxes/2"}
InboxStatuses == {"UNREAD", "ARCHIVED"}
Inbox == [name : InboxNames, receiver : Names, status : InboxStatuses]
\* Partial<Inbox>: what a caller of updateInbox passes, here the name of the
\* item to archive.
PartialInbox == [name : InboxNames, status : {"ARCHIVED"}]

\* The UserStats message: name and tagCount, the number of memos per tag for
\* the tags the account uses.
Tags == {"work", "home"}
MaxCount == 2       \* memos of one account under one tag
TagCounts == UNION {[T -> 1..MaxCount] : T \in SUBSET Tags}
UserStats == [name : Names, tagCount : TagCounts]

MaxUniqueId == 3    \* ids handed out by uniqueId()

VARIABLES
    currentUser,     \* LocalState.currentUser: a name or undefined
    userSetting,     \* LocalState.userSetting: a UserSetting or NoObject
    shortcuts,       \* LocalState.shortcuts
    inboxes,         \* LocalState.inboxes
    userMapByName,   \* LocalState.userMapByName: the object the state points to
    userStatsByName, \* LocalState.userStatsByName
    statsStateId,    \* LocalState.statsStateId
    idCounter,       \* the counter behind lodash's uniqueId()
    workspace,       \* workspaceStore.state: locale and appearance
    tasks,           \* the calls suspended at an await
    lastOp           \* what the last step did: operation, outcome, argument,
                     \* remote response or returned value, remote calls issued

vars == <<currentUser, userSetting, shortcuts, inboxes, userMapByName, workspace,
          userStatsByName, statsStateId, idCounter, tasks, lastOp>>

\* The usage statistics and their state id.
statsVars == <<userStatsByName, statsStateId, idCounter>>

\* What the operations on the Account map leave alone.
sessionVars == <<currentUser, userSetting, shortcuts, inboxes, workspace, statsVars>>

----------------------------------------------------------------------------
\* Record<string, User> objects as functions from a set of keys.

EmptyMap == [k \in {} |-> k]

\* { ...m, [k]: v }  and  m[k] = v
Put(m, k, v) == [x \in DOMAIN m \cup {k} |-> IF x = k THEN v ELSE m[x]]

\* delete m[k]
Remove(m, k) == [x \in DOMAIN m \ {k} |-> m[x]]

\* for (const user of users) userMap[user.name] = user   (fetchUsers)
RECURSIVE AssignAll(_, _)
AssignAll(m, users) ==
    IF users = <<>> THEN m
    ELSE AssignAll(Put(m, Head(users).name, Head(users)), Tail(users))

\* Array.prototype.find: the first element satisfying the test, or NoObject.
RECURSIVE FindByUsername(_, _)
FindByUsername(users, username) ==
    IF users = <<>> THEN NoObject
    ELSE IF Head(users).username = username THEN Head(users)
    ELSE FindByUsername(Tail(users), username)

\* The for-in scan of getOrFetchUserByUsername returns the first entry, in
\* the object's property order, whose username matches.  Property order is
\* not kept in the model: the scan may return any of the matching entries.
ScanByUsername(m, username) ==
    {m[name] : name \in {n \in DOMAIN m : m[n].username = username}}

\* Sequences over S of length at most n.
SeqsUpTo(S, n) == UNION {[1..k -> S] : k \in 0..n}

\* What a listing of users can answer: at most MaxList users, no resource
\* listed twice.
UserListings ==
    {us \in SeqsUpTo(User, MaxList) :
        \A i, j \in DOMAIN us : us[i].name = us[j].name => i = j}

\* What searchUsers({ query, pageSize: 10 }) can answer: one page.
pageSize == 10
SearchResults == {us \in UserListings : Len(us) <= pageSize}

\* What listShortcuts({ parent }) and listInboxes({ parent }) can answer.
ShortcutListings(parent) ==
    {l \in SeqsUpTo([parent : {parent}, id : ShortcutIds], MaxList) :
        \A i, j \in DOMAIN l : l[i].id = l[j].id => i = j}

InboxListings(parent) ==
    {l \in SeqsUpTo([name : InboxNames, receiver : {parent}, status : InboxStatuses], MaxList) :
        \A i, j \in DOMAIN l : l[i].name = l[j].name => i = j}

\* The own properties of an optional object: { ...undefined } spreads nothing.
OwnProps(x) == IF x = NoObject THEN EmptyMap ELSE x

\* { ...a, ...b }
Spread(a, b) ==
    [f \in DOMAIN a \cup DOMAIN b |-> IF f \in DOMAIN b THEN b[f] ELSE a[f]]

\* UserSetting.fromPartial: a full message, the fields the argument lacks
\* set to the empty string.
fromPartial(p) == [f \in SettingFields |-> IF f \in DOMAIN p THEN p[f] ELSE ""]

\* findNearestMatchedLanguage: the supported locale nearest to a language tag.
findNearestMatchedLanguage(language) ==
    IF language = "zh-CN" THEN "zh-Hans" ELSE "en"

\* inboxes.map((i) => i.name === updatedInbox.name ? updatedInbox : i)
RECURSIVE MapReplace(_, _)
MapReplace(l, updatedInbox) ==
    IF l = <<>> THEN <<>>
    ELSE <<IF Head(l).name = updatedInbox.name THEN updatedInbox ELSE Head(l)>>
         \o MapReplace(Tail(l), updatedInbox)

\* inboxes.filter((i) => i.name !== name)
RECURSIVE FilterOut(_, _)
FilterOut(l, name) ==
    IF l = <<>> THEN <<>>
    ELSE (IF Head(l).name # name THEN <<Head(l)>> ELSE <<>>) \o FilterOut(Tail(l), name)

----------------------------------------------------------------------------
\* Suspended calls.

\* The reference a call took of state.userMapByName while the state still
\* points to that object, and the value for calls that took none.
Live == [live |-> TRUE]
NoRef == [live |-> FALSE]

Task(op, pc, arg, userMap, calls) ==
    [op |-> op, pc |-> pc, arg |-> arg, userMap |-> userMap, calls |-> calls]

\* A call reaches its await: it joins the suspended calls.
Suspend(task) ==
    /\ Len(tasks) < MaxTasks
    /\ tasks' = Append(tasks, task)

\* The tasks that hold a reference to a map object across their await.
HoldsUserMap(task) == task.op \in {"getOrFetchUserByName", "getOrFetchUserByUsername"}

\* The object a suspended call's userMap refers to.
Deref(task) == IF task.userMap = Live THEN userMapByName ELSE task.userMap

\* The state is pointed to another object: the calls that hold the old one
\* keep it, with the content it has now.
Detach(ts) ==
    [t \in DOMAIN ts |->
        IF HoldsUserMap(ts[t]) /\ ts[t].userMap = Live
        THEN [ts[t] EXCEPT !.userMap = userMapByName]
        ELSE ts[t]]

Op(op, out, arg, res, calls) ==
    [op |-> op, out |-> out, arg |-> arg, res |-> res, calls |-> calls]

\* The suspended calls without call t, which has run to its end.
Finish(t) == SubSeq(tasks, 1, t - 1) \o SubSeq(tasks, t + 1, Len(tasks))

----------------------------------------------------------------------------
\* LocalState.setPartial, field by field.

\* setPartial({ userMapByName: <object literal m> }) by task t, which ends:
\* the state points to a new object.
setUserMapByName(m, t) ==
    /\ userMapByName' = m
    /\ tasks' = Detach(Finish(t))

\* userMap[k] = v / delete userMap[k] on state.userMapByName, followed by
\* setPartial({ userMapByName: userMap }) with that same object, by task t,
\* which ends: the state keeps pointing to the object, now holding m.
mutateUserMapByName(m, t) ==
    /\ userMapByName' = m
    /\ tasks' = Finish(t)

----------------------------------------------------------------------------
\* userStore operations on the Account map.

\* A faulty getOrFetchUserByName: it fetches without looking at the cache.
getOrFetchUserByName_AlwaysFetch(name) ==
    /\ Suspend(Task("getOrFetchUserByName", "getUser", name, Live, 1))
    /\ lastOp' = Op("getOrFetchUserByName", "await", name, NoObject, 1)
    /\ UNCHANGED <<sessionVars, userMapByName>>

getOrFetchUserByName(name) ==
    LET userMap == Live IN
    IF name \in DOMAIN userMapByName
    THEN /\ lastOp' = Op("getOrFetchUserByName", "return", name, userMapByName[name], 0)
         /\ UNCHANGED <<sessionVars, userMapByName, tasks>>
    ELSE /\ Suspend(Task("getOrFetchUserByName", "getUser", name, userMap, 1))
         /\ lastOp' = Op("getOrFetchUserByName", "await", name, NoObject, 1)
         /\ UNCHANGED <<sessionVars, userMapByName>>

\* A faulty completion of the fetch: an entry that another call cached for
\* the name meanwhile is kept, the first write wins.
getUserResolves_FirstWins(t) ==
    /\ tasks[t].pc = "getUser"
    /\ \E user \in User :
        /\ setUserMapByName(IF tasks[t].arg \in DOMAIN userMapByName
                            THEN userMapByName
                            ELSE Put(Deref(tasks[t]), tasks[t].arg, user), t)
        /\ lastOp' = Op("getOrFetchUserByName", "resolve", tasks[t].arg, user, tasks[t].calls)
    /\ UNCHANGED sessionVars

getUserResolves(t) ==
    /\ tasks[t].pc = "getUser"
    /\ \E user \in User :
        /\ setUserMapByName(Put(Deref(tasks[t]), tasks[t].arg, user), t)
        /\ lastOp' = Op("getOrFetchUserByName", "resolve", tasks[t].arg, user, tasks[t].calls)
    /\ UNCHANGED sessionVars

getOrFetchUserByUsername(username) ==
    LET userMap == Live IN
    IF ScanByUsername(userMapByName, username) # {}
    THEN \E user \in ScanByUsername(userMapByName, username) :
         /\ lastOp' = Op("getOrFetchUserByUsername", "return", username, user, 0)
         /\ UNCHANGED <<sessionVars, userMapByName, tasks>>
    ELSE /\ Suspend(Task("getOrFetchUserByUsername", "searchUsers", username, userMap, 1))
         /\ lastOp' = Op("getOrFetchUserByUsername", "await", username, NoObject, 1)
         /\ UNCHANGED <<sessionVars, userMapByName>>

\* A faulty completion of the search: the entity found is returned but not
\* cached.
searchUsersResolves_NoInsert(t) ==
    /\ tasks[t].pc = "searchUsers"
    /\ \E users \in SearchResults :
        LET user == FindByUsername(users, tasks[t].arg) IN
        lastOp' = Op("getOrFetchUserByUsername",
                     IF user = NoObject THEN "throw" ELSE "resolve",
                     tasks[t].arg, IF user = NoObject THEN [users |-> users] ELSE user,
                     tasks[t].calls)
    /\ tasks' = Finish(t)
    /\ UNCHANGED <<sessionVars, userMapByName>>

\* A faulty completion of the search: when no result has exactly the username
\* asked for, the first result is taken instead.
searchUsersResolves_FirstResult(t) ==
    /\ tasks[t].pc = "searchUsers"
    /\ \E users \in SearchResults :
        LET found == FindByUsername(users, tasks[t].arg)
            user == IF found = NoObject /\ users # <<>> THEN Head(users) ELSE found IN
        IF user = NoObject
        THEN /\ lastOp' = Op("getOrFetchUserByUsername", "throw", tasks[t].arg,
                             [users |-> users], tasks[t].calls)
             /\ tasks' = Finish(t)
             /\ UNCHANGED userMapByName
        ELSE /\ setUserMapByName(Put(Deref(tasks[t]), user.name, user), t)
             /\ lastOp' = Op("getOrFetchUserByUsername", "resolve", tasks[t].arg, user, tasks[t].calls)
    /\ UNCHANGED sessionVars

\* The search answers with the response { users }; when find() finds none of
\* the username asked for, the error thrown ends the call and lastOp records
\* the response it was thrown for.
searchUsersResolves(t) ==
    /\ tasks[t].pc = "searchUsers"
    /\ \E users \in SearchResults :
        LET user == FindByUsername(users, tasks[t].arg) IN
        IF user = NoObject
        THEN /\ lastOp' = Op("getOrFetchUserByUsername", "throw", tasks[t].arg,
                             [users |-> users], tasks[t].calls)
             /\ tasks' = Finish(t)
             /\ UNCHANGED userMapByName
        ELSE /\ setUserMapByName(Put(Deref(tasks[t]), user.name, user), t)
             /\ lastOp' = Op("getOrFetchUserByUsername", "resolve", tasks[t].arg, user, tasks[t].calls)
    /\ UNCHANGED sessionVars

fetchUsers ==
    /\ Suspend(Task("fetchUsers", "listUsers", "", NoRef, 1))
        /\ lastOp' = Op("fetchUsers", "await", "", NoObject, 1)
        /\ UNCHANGED <<sessionVars, userMapByName>>

\* A faulty completion of fetchUsers: the listing replaces the map instead
\* of being merged into it.
listUsersResolves_Replace(t) ==
    /\ tasks[t].pc = "listUsers"
    /\ \E users \in UserListings :
        /\ mutateUserMapByName(AssignAll(EmptyMap, users), t)
        /\ lastOp' = Op("fetchUsers", "resolve", "", users, tasks[t].calls)
    /\ UNCHANGED sessionVars

listUsersResolves(t) ==
    /\ tasks[t].pc = "listUsers"
    /\ \E users \in UserListings :
        /\ mutateUserMapByName(AssignAll(userMapByName, users), t)
        /\ lastOp' = Op("fetchUsers", "resolve", "", users, tasks[t].calls)
    /\ UNCHANGED sessionVars

updateUser(user) ==
    /\ Suspend(Task("updateUser", "updateUser", user, NoRef, 1))
        /\ lastOp' = Op("updateUser", "await", user, NoObject, 1)
        /\ UNCHANGED <<sessionVars, userMapByName>>

\* A faulty completion of updateUser: the caller's partial user is cached
\* instead of the response.
updateUserResolves_CachesInput(t) ==
    /\ tasks[t].pc = "updateUser"
    /\ \E updatedUser \in User :
        /\ setUserMapByName(Put(userMapByName, updatedUser.name, tasks[t].arg), t)
        /\ lastOp' = Op("updateUser", "resolve", tasks[t].arg, updatedUser, tasks[t].calls)
    /\ UNCHANGED sessionVars

updateUserResolves(t) ==
    /\ tasks[t].pc = "updateUser"
    /\ \E updatedUser \in User :
        /\ setUserMapByName(Put(userMapByName, updatedUser.name, updatedUser), t)
        /\ lastOp' = Op("updateUser", "resolve", tasks[t].arg, updatedUser, tasks[t].calls)
    /\ UNCHANGED sessionVars

\* A faulty deleteUser: the entry is removed locally before the remote call
\* is awaited.
deleteUser_Optimistic(name) ==
    /\ Suspend(Task("deleteUser", "deleteUser", name, NoRef, 1))
    /\ userMapByName' = Remove(userMapByName, name)
    /\ lastOp' = Op("deleteUser", "await", name, NoObject, 1)
    /\ UNCHANGED sessionVars

deleteUser(name) ==
    /\ Suspend(Task("deleteUser", "deleteUser", name, NoRef, 1))
        /\ lastOp' = Op("deleteUser", "await", name, NoObject, 1)
        /\ UNCHANGED <<sessionVars, userMapByName>>

deleteUserResolves(t) ==
    /\ tasks[t].pc = "deleteUser"
    /\ mutateUserMapByName(Remove(userMapByName, tasks[t].arg), t)
    /\ lastOp' = Op("deleteUser", "resolve", tasks[t].arg, NoObject, tasks[t].calls)
    /\ UNCHANGED sessionVars

\* The remote call of a userStore operation throws: no userStore function
\* has a catch, so nothing after the await runs.
remoteCallThrows(t) ==
    /\ tasks[t].op # "initialUserStore"
    /\ tasks' = Finish(t)
    /\ lastOp' = Op(tasks[t].op, "throw", tasks[t].arg, NoObject, tasks[t].calls)
    /\ UNCHANGED <<sessionVars, userMapByName>>

\* userStore.getUserByName
getUserByName(name) ==
    IF name \in DOMAIN userMapByName THEN userMapByName[name] ELSE NoObject

----------------------------------------------------------------------------
\* userStore operations on the settings, the shortcuts and the inboxes.

\* A faulty updateUserSetting: a name the caller supplied wins over the
\* current account's.
updateUserSetting_KeepsCallerName(partial) ==
    IF currentUser = undefined
    THEN /\ lastOp' = Op("updateUserSetting", "throw", partial, NoObject, 0)
         /\ UNCHANGED <<sessionVars, userMapByName, tasks>>
    ELSE LET settingWithName == Spread([name |-> currentUser], partial) IN
         /\ Suspend(Task("updateUserSetting", "updateUserSetting", settingWithName, NoRef, 1))
         /\ lastOp' = Op("updateUserSetting", "await", partial, settingWithName, 1)
         /\ UNCHANGED <<sessionVars, userMapByName>>

updateUserSetting(partial) ==
    IF currentUser = undefined
    THEN /\ lastOp' = Op("updateUserSetting", "throw", partial, NoObject, 0)
         /\ UNCHANGED <<sessionVars, userMapByName, tasks>>
    ELSE LET settingWithName == Spread(partial, [name |-> currentUser]) IN
         /\ Suspend(Task("updateUserSetting", "updateUserSetting", settingWithName, NoRef, 1))
         /\ lastOp' = Op("updateUserSetting", "await", partial, settingWithName, 1)
         /\ UNCHANGED <<sessionVars, userMapByName>>

\* The service answers with the setting of the account the request names.
updateUserSettingResolves(t) ==
    /\ tasks[t].pc = "updateUserSetting"
    /\ \E updatedUserSetting \in {s \in UserSetting : s.name = tasks[t].arg.name} :
        /\ userSetting' = fromPartial(Spread(OwnProps(userSetting), updatedUserSetting))
        /\ lastOp' = Op("updateUserSetting", "resolve", tasks[t].arg, updatedUserSetting,
                        tasks[t].calls)
    /\ tasks' = Finish(t)
    /\ UNCHANGED <<currentUser, shortcuts, inboxes, workspace, userMapByName, statsVars>>

fetchShortcuts ==
    IF currentUser = undefined
    THEN /\ lastOp' = Op("fetchShortcuts", "return", "", NoObject, 0)
         /\ UNCHANGED <<sessionVars, userMapByName, tasks>>
    ELSE /\ Suspend(Task("fetchShortcuts", "listShortcuts", currentUser, NoRef, 1))
         /\ lastOp' = Op("fetchShortcuts", "await", currentUser, NoObject, 1)
         /\ UNCHANGED <<sessionVars, userMapByName>>

listShortcutsResolves(t) ==
    /\ tasks[t].pc = "listShortcuts"
    /\ \E l \in ShortcutListings(tasks[t].arg) :
        /\ shortcuts' = l
        /\ lastOp' = Op("fetchShortcuts", "resolve", tasks[t].arg, l, tasks[t].calls)
    /\ tasks' = Finish(t)
    /\ UNCHANGED <<currentUser, userSetting, inboxes, workspace, userMapByName, statsVars>>

\* A faulty fetchInboxes: it lists without testing for a current account.
fetchInboxes_NoGuard ==
    /\ Suspend(Task("fetchInboxes", "listInboxes", currentUser, NoRef, 1))
    /\ lastOp' = Op("fetchInboxes", "await", currentUser, NoObject, 1)
    /\ UNCHANGED <<sessionVars, userMapByName>>

fetchInboxes ==
    IF currentUser = undefined
    THEN /\ lastOp' = Op("fetchInboxes", "throw", "", NoObject, 0)
         /\ UNCHANGED <<sessionVars, userMapByName, tasks>>
    ELSE /\ Suspend(Task("fetchInboxes", "listInboxes", currentUser, NoRef, 1))
         /\ lastOp' = Op("fetchInboxes", "await", currentUser, NoObject, 1)
         /\ UNCHANGED <<sessionVars, userMapByName>>

listInboxesResolves(t) ==
    /\ tasks[t].pc = "listInboxes"
    /\ \E l \in InboxListings(tasks[t].arg) :
        /\ inboxes' = l
        /\ lastOp' = Op("fetchInboxes", "resolve", tasks[t].arg, l, tasks[t].calls)
    /\ tasks' = Finish(t)
    /\ UNCHANGED <<currentUser, userSetting, shortcuts, workspace, userMapByName, statsVars>>

updateInbox(inbox) ==
    /\ Suspend(Task("updateInbox", "updateInbox", inbox, NoRef, 1))
        /\ lastOp' = Op("updateInbox", "await", inbox, NoObject, 1)
        /\ UNCHANGED <<sessionVars, userMapByName>>

\* A faulty completion of updateInbox: a response that names no cached item
\* is added to the collection.
updateInboxResolves_Upserts(t) ==
    /\ tasks[t].pc = "updateInbox"
    /\ \E updatedInbox \in Inbox :
        /\ inboxes' = IF \E i \in DOMAIN inboxes : inboxes[i].name = updatedInbox.name
                      THEN MapReplace(inboxes, updatedInbox)
                      ELSE Append(inboxes, updatedInbox)
        /\ lastOp' = Op("updateInbox", "resolve", tasks[t].arg, updatedInbox, tasks[t].calls)
    /\ tasks' = Finish(t)
    /\ UNCHANGED <<currentUser, userSetting, shortcuts, workspace, userMapByName, statsVars>>

updateInboxResolves(t) ==
    /\ tasks[t].pc = "updateInbox"
    /\ \E updatedInbox \in Inbox :
        /\ inboxes' = MapReplace(inboxes, updatedInbox)
        /\ lastOp' = Op("updateInbox", "resolve", tasks[t].arg, updatedInbox, tasks[t].calls)
    /\ tasks' = Finish(t)
    /\ UNCHANGED <<currentUser, userSetting, shortcuts, workspace, userMapByName, statsVars>>

deleteInbox(name) ==
    /\ Suspend(Task("deleteInbox", "deleteInbox", name, NoRef, 1))
        /\ lastOp' = Op("deleteInbox", "await", name, NoObject, 1)
        /\ UNCHANGED <<sessionVars, userMapByName>>

deleteInboxResolves(t) ==
    /\ tasks[t].pc = "deleteInbox"
    /\ inboxes' = FilterOut(inboxes, tasks[t].arg)
    /\ lastOp' = Op("deleteInbox", "resolve", tasks[t].arg, NoObject, tasks[t].calls)
    /\ tasks' = Finish(t)
    /\ UNCHANGED <<currentUser, userSetting, shortcuts, workspace, userMapByName, statsVars>>

----------------------------------------------------------------------------
\* The usage statistics: fetchUserStats, the derived reads of LocalState and
\* setStatsStateId.

\* What listAllUserStats can answer: at most MaxList entries, no account
\* listed twice.
StatsListings ==
    {l \in SeqsUpTo(UserStats, MaxList) :
        \A i, j \in DOMAIN l : l[i].name = l[j].name => i = j}

\* The user argument of fetchUserStats: an account name, or none.
StatsArgs == Names \cup {undefined}

fetchUserStats(user) ==
    /\ Suspend(Task("fetchUserStats",
                    IF user = undefined THEN "listAllUserStats" ELSE "getUserStats",
                    user, NoRef, 1))
    /\ lastOp' = Op("fetchUserStats", "await", user, NoObject, 1)
    /\ UNCHANGED <<sessionVars, userMapByName>>

listAllUserStatsResolves(t) ==
    /\ tasks[t].pc = "listAllUserStats"
    /\ \E userStats \in StatsListings :
        LET fetched == AssignAll(EmptyMap, userStats) IN
        /\ userStatsByName' = Spread(userStatsByName, fetched)
        /\ lastOp' = Op("fetchUserStats", "resolve", tasks[t].arg, userStats, tasks[t].calls)
    /\ tasks' = Finish(t)
    /\ UNCHANGED <<currentUser, userSetting, shortcuts, inboxes, workspace, userMapByName,
                   statsStateId, idCounter>>

\* A faulty completion of fetchUserStats(user): the entry fetched replaces
\* the whole map.
getUserStatsResolves_Replace(t) ==
    /\ tasks[t].pc = "getUserStats"
    /\ \E userStats \in UserStats :
        LET fetched == Put(EmptyMap, tasks[t].arg, userStats) IN
        /\ userStatsByName' = fetched
        /\ lastOp' = Op("fetchUserStats", "resolve", tasks[t].arg, userStats, tasks[t].calls)
    /\ tasks' = Finish(t)
    /\ UNCHANGED <<currentUser, userSetting, shortcuts, inboxes, workspace, userMapByName,
                   statsStateId, idCounter>>

getUserStatsResolves(t) ==
    /\ tasks[t].pc = "getUserStats"
    /\ \E userStats \in UserStats :
        LET fetched == Put(EmptyMap, tasks[t].arg, userStats) IN
        /\ userStatsByName' = Spread(userStatsByName, fetched)
        /\ lastOp' = Op("fetchUserStats", "resolve", tasks[t].arg, userStats, tasks[t].calls)
    /\ tasks' = Finish(t)
    /\ UNCHANGED <<currentUser, userSetting, shortcuts, inboxes, workspace, userMapByName,
                   statsStateId, idCounter>>

\* A faulty  tagCount[tag] = ... : the count of the entry at hand overwrites
\* the count summed so far.
addTag_Overwrites(acc, stats, tag) ==
    Put(acc, tag, stats.tagCount[tag])

\* tagCount[tag] = (tagCount[tag] || 0) + stats.tagCount[tag]
addTag(acc, stats, tag) ==
    Put(acc, tag, (IF tag \in DOMAIN acc /\ acc[tag] # 0 THEN acc[tag] ELSE 0)
                  + stats.tagCount[tag])

\* for (const tag of Object.keys(stats.tagCount)) ...
RECURSIVE addTags(_, _, _)
addTags(acc, stats, keys) ==
    IF keys = {} THEN acc
    ELSE LET tag == CHOOSE k \in keys : TRUE IN
         addTags(addTag(acc, stats, tag), stats, keys \ {tag})

\* for (const stats of Object.values(this.userStatsByName)) ...
RECURSIVE addStats(_, _, _)
addStats(acc, m, names) ==
    IF names = {} THEN acc
    ELSE LET name == CHOOSE k \in names : TRUE IN
         addStats(addTags(acc, m[name], DOMAIN m[name].tagCount), m, names \ {name})

\* get tagCount()
tagCount == addStats(EmptyMap, userStatsByName, DOMAIN userStatsByName)

\* get currentUserStats()
currentUserStats ==
    IF currentUser = undefined THEN NoObject
    ELSE IF currentUser \in DOMAIN userStatsByName THEN userStatsByName[currentUser]
    ELSE NoObject

\* uniqueId(): the next value of the counter, as a string.
uniqueId == ToString(idCounter + 1)

\* The ids a caller of setStatsStateId passes; undefined for a call without.
StateIds == {"memo-list", undefined}

\* setStatsStateId(id = uniqueId())
setStatsStateId(id) ==
    /\ idCounter < MaxUniqueId
    /\ IF id = undefined
       THEN /\ statsStateId' = uniqueId
            /\ idCounter' = idCounter + 1
       ELSE /\ statsStateId' = id
            /\ UNCHANGED idCounter
    /\ lastOp' = Op("setStatsStateId", "return", id, NoObject, 0)
    /\ UNCHANGED <<currentUser, userSetting, shortcuts, inboxes, workspace, userMapByName,
                   userStatsByName, tasks>>

----------------------------------------------------------------------------
\* initialUserStore.  What the session and the settings service answer, and
\* the language the browser reports, are drawn from the sets given.

initialUserStore ==
    /\ Suspend(Task("initialUserStore", "getCurrentSession", "", NoRef, 1))
        /\ lastOp' = Op("initialUserStore", "await", "", NoObject, 1)
        /\ UNCHANGED <<sessionVars, userMapByName>>

\* A faulty bootstrap: the current-account marker is set as soon as the
\* session resolves, before the settings are fetched.
getCurrentSessionResolves_EarlyMarker(t, Sessions) ==
    /\ tasks[t].pc = "getCurrentSession"
    /\ \E user \in Sessions :
        IF user = NoObject
        THEN /\ currentUser' = undefined
             /\ userSetting' = NoObject
             /\ setUserMapByName(EmptyMap, t)
             /\ lastOp' = Op("initialUserStore", "return", "getCurrentSession", NoObject,
                             tasks[t].calls)
             /\ UNCHANGED <<shortcuts, inboxes, workspace, statsVars>>
        ELSE /\ tasks' = [tasks EXCEPT ![t] =
                    Task("initialUserStore", "getUserSetting", user, NoRef, 2)]
             /\ currentUser' = user.name
             /\ lastOp' = Op("initialUserStore", "await", "getUserSetting", user, 2)
             /\ UNCHANGED <<userSetting, shortcuts, inboxes, workspace, userMapByName, statsVars>>

\* A faulty bootstrap: with no account in the session, the marker and the
\* settings are cleared but the Account map is kept.
getCurrentSessionResolves_KeepsMap(t, Sessions) ==
    /\ tasks[t].pc = "getCurrentSession"
    /\ \E user \in Sessions :
        IF user = NoObject
        THEN /\ currentUser' = undefined
             /\ userSetting' = NoObject
             /\ setUserMapByName(userMapByName, t)
             /\ lastOp' = Op("initialUserStore", "return", "getCurrentSession", NoObject,
                             tasks[t].calls)
             /\ UNCHANGED <<shortcuts, inboxes, workspace, statsVars>>
        ELSE /\ tasks' = [tasks EXCEPT ![t] =
                    Task("initialUserStore", "getUserSetting", user, NoRef, 2)]
             /\ lastOp' = Op("initialUserStore", "await", "getUserSetting", user, 2)
             /\ UNCHANGED <<sessionVars, userMapByName>>

getCurrentSessionResolves(t, Sessions) ==
    /\ tasks[t].pc = "getCurrentSession"
    /\ \E user \in Sessions :
        IF user = NoObject
        THEN /\ currentUser' = undefined
             /\ userSetting' = NoObject
             /\ setUserMapByName(EmptyMap, t)
             /\ lastOp' = Op("initialUserStore", "return", "getCurrentSession", NoObject,
                             tasks[t].calls)
             /\ UNCHANGED <<shortcuts, inboxes, workspace, statsVars>>
        ELSE /\ tasks' = [tasks EXCEPT ![t] =
                    Task("initialUserStore", "getUserSetting", user, NoRef, 2)]
             /\ lastOp' = Op("initialUserStore", "await", "getUserSetting", user, 2)
             /\ UNCHANGED <<sessionVars, userMapByName>>

\* A faulty end of the bootstrap: the account is merged into the Account map.
getUserSettingResolves_Merges(t, Settings) ==
    /\ tasks[t].pc = "getUserSetting"
    /\ \E setting \in {s \in Settings : s.name = tasks[t].arg.name} :
        /\ currentUser' = tasks[t].arg.name
        /\ userSetting' = fromPartial(Spread(EmptyMap, setting))
        /\ setUserMapByName(Put(userMapByName, tasks[t].arg.name, tasks[t].arg), t)
        /\ workspace' = [locale |-> setting.locale, appearance |-> setting.appearance]
        /\ lastOp' = Op("initialUserStore", "resolve", tasks[t].arg, setting, tasks[t].calls)
    /\ UNCHANGED <<shortcuts, inboxes, statsVars>>

getUserSettingResolves(t, Settings) ==
    /\ tasks[t].pc = "getUserSetting"
    /\ \E setting \in {s \in Settings : s.name = tasks[t].arg.name} :
        /\ currentUser' = tasks[t].arg.name
        /\ userSetting' = fromPartial(Spread(EmptyMap, setting))
        /\ setUserMapByName(Put(EmptyMap, tasks[t].arg.name, tasks[t].arg), t)
        /\ workspace' = [locale |-> setting.locale, appearance |-> setting.appearance]
        /\ lastOp' = Op("initialUserStore", "resolve", tasks[t].arg, setting, tasks[t].calls)
    /\ UNCHANGED <<shortcuts, inboxes, statsVars>>

\* A faulty catch block: it also resets the session.
initialUserStoreCatch_Reset(t, Languages) ==
    /\ tasks[t].op = "initialUserStore"
    /\ \E language \in Languages :
        LET locale == findNearestMatchedLanguage(language) IN
        /\ workspace' = [workspace EXCEPT !.locale = locale]
        /\ lastOp' = Op("initialUserStore", "catch", tasks[t].pc, language, tasks[t].calls)
    /\ currentUser' = undefined
    /\ userSetting' = NoObject
    /\ tasks' = Finish(t)
    /\ UNCHANGED <<shortcuts, inboxes, userMapByName, statsVars>>

\* getCurrentSession or getUserSetting throws: the catch block.
initialUserStoreCatch(t, Languages) ==
    /\ tasks[t].op = "initialUserStore"
    /\ \E language \in Languages :
        LET locale == findNearestMatchedLanguage(language) IN
        /\ workspace' = [workspace EXCEPT !.locale = locale]
        /\ lastOp' = Op("initialUserStore", "catch", tasks[t].pc, language, tasks[t].calls)
    /\ tasks' = Finish(t)
    /\ UNCHANGED <<currentUser, userSetting, shortcuts, inboxes, userMapByName, statsVars>>

----------------------------------------------------------------------------
\* The state of a new LocalState; the workspace store, which this file only
\* writes to, starts with the locale "en" and the appearance "system".
Init ==
    /\ currentUser = undefined
    /\ userSetting = NoObject
    /\ shortcuts = <<>>
    /\ inboxes = <<>>
    /\ workspace = [locale |-> "en", appearance |-> "system"]
    /\ userMapByName = EmptyMap
    /\ userStatsByName = EmptyMap
    /\ idCounter = 1
    /\ statsStateId = ToString(1)
    /\ tasks = <<>>
    /\ lastOp = Op("init", "", "", NoObject, 0)

\* The steps of initialUserStore.
Bootstrap(Sessions, Settings, Languages) ==
    \/ initialUserStore
    \/ \E t \in DOMAIN tasks : getCurrentSessionResolves(t, Sessions)
    \/ \E t \in DOMAIN tasks : getUserSettingResolves(t, Settings)
    \/ \E t \in DOMAIN tasks : initialUserStoreCatch(t, Languages)

AccountOps ==
    \/ \E name \in Names : getOrFetchUserByName(name)
    \/ \E t \in DOMAIN tasks : getUserResolves(t)
    \/ \E username \in Usernames : getOrFetchUserByUsername(username)
    \/ \E t \in DOMAIN tasks : searchUsersResolves(t)
    \/ fetchUsers
    \/ \E t \in DOMAIN tasks : listUsersResolves(t)
    \/ \E user \in PartialUser : updateUser(user)
    \/ \E t \in DOMAIN tasks : updateUserResolves(t)
    \/ \E name \in Names : deleteUser(name)
    \/ \E t \in DOMAIN tasks : deleteUserResolves(t)

SettingOps ==
    \/ \E partial \in PartialUserSetting : updateUserSetting(partial)
    \/ \E t \in DOMAIN tasks : updateUserSettingResolves(t)

ListOps ==
    \/ fetchShortcuts
    \/ \E t \in DOMAIN tasks : listShortcutsResolves(t)
    \/ fetchInboxes
    \/ \E t \in DOMAIN tasks : listInboxesResolves(t)
    \/ \E inbox \in PartialInbox : updateInbox(inbox)
    \/ \E t \in DOMAIN tasks : updateInboxResolves(t)
    \/ \E name \in InboxNames : deleteInbox(name)
    \/ \E t \in DOMAIN tasks : deleteInboxResolves(t)

StatsOps ==
    \/ \E user \in StatsArgs : fetchUserStats(user)
    \/ \E t \in DOMAIN tasks : listAllUserStatsResolves(t)
    \/ \E t \in DOMAIN tasks : getUserStatsResolves(t)
    \/ \E id \in StateIds : setStatsStateId(id)

\* The remote call of some suspended userStore operation throws.
Throws == \E t \in DOMAIN tasks : remoteCallThrows(t)

Sessions == User \cup {NoObject}

Next ==
    \/ Bootstrap(Sessions, UserSetting, BrowserLanguages)
    \/ AccountOps
    \/ SettingOps
    \/ ListOps
    \/ StatsOps
    \/ Throws

Spec == Init /\ [][Next]_vars

\* The operations on the Account map with the bootstrap.  No operation on
\* the Account map reads the settings or the workspace, so here the settings
\* service has one answer per account and the browser one language.
OneUserSetting == [name : Names, locale : {"en"}, appearance : {"system"}]
SpecAccounts ==
    Init /\ [][Bootstrap(Sessions, OneUserSetting, {"en-US"}) \/ AccountOps \/ Throws]_vars

\* The bootstrap and the settings.
SpecSettings ==
    Init /\ [][Bootstrap(Sessions, UserSetting, BrowserLanguages) \/ SettingOps \/ Throws]_vars

\* The bootstrap, the shortcuts and the inboxes.  No operation on the lists
\* reads the Account map, the settings or the workspace: one username, one
\* answer of the settings service per account, one browser language.
OneUsername == [name : Names, username : {"alice"}] \cup {NoObject}
SpecLists ==
    Init /\ [][Bootstrap(OneUsername, OneUserSetting, {"en-US"}) \/ ListOps \/ Throws]_vars

\* The two delete operations with the operations that fill and rewrite the
\* caches they delete from.
DeleteOps ==
    \/ fetchUsers
    \/ \E t \in DOMAIN tasks : listUsersResolves(t)
    \/ \E name \in Names : deleteUser(name)
    \/ \E t \in DOMAIN tasks : deleteUserResolves(t)
    \/ fetchInboxes
    \/ \E t \in DOMAIN tasks : listInboxesResolves(t)
    \/ \E name \in InboxNames : deleteInbox(name)
    \/ \E t \in DOMAIN tasks : deleteInboxResolves(t)
SpecDelete ==
    Init /\ [][Bootstrap(OneUsername, OneUserSetting, {"en-US"}) \/ DeleteOps \/ Throws]_vars

\* The three operations that test for a current account before their remote
\* call, with the bootstrap that sets and clears it.  The test tells an
\* account from none: the session resolves to one account or to none.
GuardedOps ==
    \/ SettingOps
    \/ fetchShortcuts
    \/ \E t \in DOMAIN tasks : listShortcutsResolves(t)
    \/ fetchInboxes
    \/ \E t \in DOMAIN tasks : listInboxesResolves(t)
OneAccount == {[name |-> "users/1", username |-> "alice"], NoObject}
SpecGuards ==
    Init /\ [][Bootstrap(OneAccount, OneUserSetting, {"en-US"}) \/ GuardedOps \/ Throws]_vars

\* The usage statistics.  fetchUserStats and setStatsStateId read no field
\* that another operation writes, and no other operation writes theirs.
SpecStats == Init /\ [][StatsOps \/ Throws]_vars

----------------------------------------------------------------------------
\* The steps of the operations, told by what lastOp records of a step.

\* The last step was the completion of `op` with outcome `out`.
Did(op, out) == lastOp.op = op /\ lastOp.out = out

\* This step is a step of `op` with one of the outcomes `outs`.
Does(op, outs) == lastOp'.op = op /\ lastOp'.out \in outs

stateVars == <<currentUser, userSetting, shortcuts, inboxes, userMapByName, workspace,
               userStatsByName, statsStateId>>

\* C1: after updateUser succeeds, the Account map entry at response.name is
\* the entity the remote update call returned, whatever the caller's partial
\* input and the cache held before; so it is the partial only where the
\* service answered with the very same record.
C1_UpdateUserCachesResponse ==
    Did("updateUser", "resolve") =>
        /\ lastOp.res.name \in DOMAIN userMapByName
        /\ getUserByName(lastOp.res.name) = lastOp.res
        /\ (lastOp.arg # lastOp.res => getUserByName(lastOp.res.name) # lastOp.arg)

\* An update of a cached account in a two-entry cache, answered with another
\* username than the caller sent.
C1_Witness ==
    /\ Did("updateUser", "resolve")
    /\ lastOp.arg # lastOp.res
    /\ lastOp.arg.name = lastOp.res.name
    /\ DOMAIN userMapByName = Names

\* C2: when the remote delete call of deleteUser or deleteInbox succeeds, the
\* entry of that name is absent right after the completion; when it fails,
\* no step of the operation (the call, the failure) has changed the Account
\* map or the inbox collection, so what was cached is still cached with the
\* same value.
C2_DeleteOnlyOnSuccess ==
    /\ [](Did("deleteUser", "resolve") => getUserByName(lastOp.arg) = NoObject)
    /\ [](Did("deleteInbox", "resolve") =>
            \A i \in DOMAIN inboxes : inboxes[i].name # lastOp.arg)
    /\ [][(Does("deleteUser", {"await", "throw"}) \/ Does("deleteInbox", {"await", "throw"}))
            => UNCHANGED <<userMapByName, inboxes>>]_vars

\* A deleteUser whose remote call failed, the entry still cached, with inbox
\* items cached too.
C2_Witness ==
    /\ Did("deleteUser", "throw")
    /\ lastOp.arg \in DOMAIN userMapByName
    /\ inboxes # <<>>

\* C3: a call getOrFetchUserByName(n) with n a key of the Account map issues
\* no remote call (none is suspended by it), returns the cached value of n
\* and leaves every field of the state container unchanged.
C3_CachedLookupIsLocal ==
    [][(Does("getOrFetchUserByName", {"return", "await"})
            /\ lastOp'.arg \in DOMAIN userMapByName)
        => /\ lastOp'.out = "return"
           /\ lastOp'.calls = 0
           /\ lastOp'.res = userMapByName[lastOp'.arg]
           /\ UNCHANGED <<stateVars, tasks>>]_vars

\* A lookup answered from the cache while another call is suspended.
C3_Witness ==
    /\ Did("getOrFetchUserByName", "return")
    /\ lastOp.calls = 0
    /\ tasks # <<>>

\* C4: the completion of fetchUsers keeps every key the Account map had just
\* before it, keeps the value of the entries the listing does not name, and
\* caches every listed entity under its own name.
C4_FetchUsersMerges ==
    [][Does("fetchUsers", {"resolve"})
        => /\ DOMAIN userMapByName \subseteq DOMAIN userMapByName'
           /\ \A k \in DOMAIN userMapByName :
                (\A i \in DOMAIN lastOp'.res : lastOp'.res[i].name # k)
                    => userMapByName'[k] = userMapByName[k]
           /\ \A i \in DOMAIN lastOp'.res :
                /\ lastOp'.res[i].name \in DOMAIN userMapByName'
                /\ userMapByName'[lastOp'.res[i].name] = lastOp'.res[i]]_vars

\* A listing of one account lands in a cache that holds the other one too.
C4_Witness ==
    /\ Did("fetchUsers", "resolve")
    /\ Len(lastOp.res) = 1
    /\ DOMAIN userMapByName = Names

\* C5: whenever the settings are present, a current account is set and the
\* settings are those of the current account.
C5_SettingsBelongToCurrentUser ==
    userSetting # NoObject =>
        /\ currentUser # undefined
        /\ userSetting.name = currentUser

\* C6: when a bootstrap has completed, every cached shortcut and every cached
\* inbox item has the current account as its parent.
C6_ListsBelongToCurrentUser ==
    (Did("initialUserStore", "return") \/ Did("initialUserStore", "resolve")) =>
        /\ \A i \in DOMAIN shortcuts : shortcuts[i].parent = currentUser
        /\ \A i \in DOMAIN inboxes : inboxes[i].receiver = currentUser

\* C7 as stated: when getCurrentSession throws, the state after the bootstrap
\* has the current account absent, the settings absent and the workspace
\* locale set to the locale picked from the browser language.
C7_SessionFailureClears ==
    (Did("initialUserStore", "catch") /\ lastOp.arg = "getCurrentSession") =>
        /\ currentUser = undefined
        /\ userSetting = NoObject
        /\ workspace.locale = findNearestMatchedLanguage(lastOp.res)

\* C7 as amended: when getCurrentSession throws, the bootstrap leaves the
\* current account and the settings as they were (absent where they were
\* absent), sets the workspace locale to the locale picked from the browser
\* language and propagates nothing else: the appearance is unchanged.
C7_SessionFailureKeeps ==
    [][(Does("initialUserStore", {"catch"}) /\ lastOp'.arg = "getCurrentSession")
        => /\ UNCHANGED <<currentUser, userSetting>>
           /\ workspace' = [workspace EXCEPT
                              !.locale = findNearestMatchedLanguage(lastOp'.res)]]_vars

\* The session call threw while an account was current, the locale and the
\* appearance of its settings propagated before.
C7_Witness ==
    /\ Did("initialUserStore", "catch")
    /\ lastOp.arg = "getCurrentSession"
    /\ currentUser # undefined
    /\ userSetting # NoObject
    /\ workspace.appearance = "dark"
    /\ workspace.locale = findNearestMatchedLanguage(lastOp.res)
    /\ workspace.locale # userSetting.locale

\* C8: no step of a bootstrap but its last, successful one changes the
\* current-account marker, the settings or the Account map: a step that only
\* issues a call changes nothing, the catch block (after either call threw)
\* changes the workspace locale alone, and the successful end sets the three
\* fields together, from the resolved account and the fetched settings.
C8_BootstrapAllOrNothing ==
    [][/\ Does("initialUserStore", {"await"})
            => UNCHANGED <<currentUser, userSetting, userMapByName, workspace>>
       /\ Does("initialUserStore", {"catch"})
            => /\ UNCHANGED <<currentUser, userSetting, userMapByName>>
               /\ workspace'.appearance = workspace.appearance
       /\ Does("initialUserStore", {"resolve"})
            => /\ currentUser' = lastOp'.arg.name
               /\ userSetting' = lastOp'.res
               /\ userMapByName' = Put(EmptyMap, lastOp'.arg.name, lastOp'.arg)]_vars

\* The settings fetch threw after the session had resolved to an account that
\* is not the current one.
C8_Witness ==
    /\ Did("initialUserStore", "catch")
    /\ lastOp.arg = "getUserSetting"
    /\ lastOp.calls = 2
    /\ currentUser # undefined

\* C9: every key of the Account map maps to an Account of that resource name.
C9_KeyIsOwnName ==
    \A k \in DOMAIN userMapByName : userMapByName[k].name = k

\* C10: a getOrFetchUserByUsername(u) that missed the cache and whose search
\* returned an entity of username u has issued one search call and has cached
\* that entity under its own resource name; a getOrFetchUserByUsername(u)
\* right after it issues no remote call and returns a cached entity of
\* username u: that very entity when no other cached account has username u.
C10_SearchThenHit ==
    /\ [](Did("getOrFetchUserByUsername", "resolve") =>
            /\ lastOp.calls = 1
            /\ lastOp.res.username = lastOp.arg
            /\ getUserByName(lastOp.res.name) = lastOp.res)
    /\ [][(/\ Did("getOrFetchUserByUsername", "resolve")
           /\ Does("getOrFetchUserByUsername", {"return", "await"})
           /\ lastOp'.arg = lastOp.arg)
          => /\ lastOp'.out = "return"
             /\ lastOp'.calls = 0
             /\ UNCHANGED <<stateVars, tasks>>
             /\ lastOp'.res \in ScanByUsername(userMapByName, lastOp.arg)
             /\ (ScanByUsername(userMapByName, lastOp.arg) = {lastOp.res}
                    => lastOp'.res = lastOp.res)]_vars

\* A search that found its entity, cached beside an entry of another username.
C10_Witness ==
    /\ Did("getOrFetchUserByUsername", "resolve")
    /\ lastOp.calls = 1
    /\ DOMAIN userMapByName = Names
    /\ ScanByUsername(userMapByName, lastOp.arg) = {lastOp.res}

\* C11: a read-through lookup that fails leaves the Account map (and every
\* other field of the state container) as it was and ends with an error: so
\* for getOrFetchUserByName when getUser throws, for getOrFetchUserByUsername
\* when searchUsers throws, and for getOrFetchUserByUsername when the search
\* answers with results none of which has exactly the username asked for.
\* An error for "not found" is raised only for such a response, and a lookup
\* by username never succeeds with an entity of another username or with none.
C11_FailedLookupKeepsMap ==
    /\ [][(Does("getOrFetchUserByName", {"throw"}) \/ Does("getOrFetchUserByUsername", {"throw"}))
            => /\ UNCHANGED stateVars
               /\ Len(tasks') = Len(tasks) - 1]_vars
    /\ []((Did("getOrFetchUserByUsername", "throw") /\ lastOp.res # NoObject)
            => \A i \in DOMAIN lastOp.res.users : lastOp.res.users[i].username # lastOp.arg)
    /\ [](Did("getOrFetchUserByUsername", "resolve")
            => /\ lastOp.res # NoObject
               /\ lastOp.res.username = lastOp.arg)

\* A search answered with two accounts, neither of the username asked for,
\* while the cache holds an entry.
C11_Witness ==
    /\ Did("getOrFetchUserByUsername", "throw")
    /\ lastOp.res # NoObject
    /\ Len(lastOp.res.users) = 2
    /\ userMapByName # EmptyMap

\* C12: a call of updateUserSetting, fetchShortcuts or fetchInboxes made
\* while no account is current issues no remote call (no call is suspended)
\* and changes no field of the state container; updateUserSetting and
\* fetchInboxes end with an error, fetchShortcuts returns.  The call of an
\* operation is its step that takes no suspended call off `tasks`.
C12_NoCurrentUserNoCall ==
    [][\A op \in {"updateUserSetting", "fetchShortcuts", "fetchInboxes"} :
        (/\ currentUser = undefined
         /\ Does(op, {"await", "throw", "return"})
         /\ Len(tasks') >= Len(tasks))
        => /\ tasks' = tasks
           /\ lastOp'.calls = 0
           /\ UNCHANGED stateVars
           /\ lastOp'.out = (IF op = "fetchShortcuts" THEN "return" ELSE "throw")]_vars

\* fetchInboxes refused after a bootstrap cleared the current account, with
\* lists cached for the account that was current and a call still suspended.
C12_Witness ==
    /\ Did("fetchInboxes", "throw")
    /\ lastOp.calls = 0
    /\ currentUser = undefined
    /\ inboxes # <<>>
    /\ tasks # <<>>

\* C13: in every state, the tag-count aggregate read from the state container
\* has exactly the tags that some cached UsageStats entry has, and for each
\* of them the sum of its counts over all cached entries (an entry without
\* the tag adds nothing).  The sum is counted out: one element per memo.
C13_TagCountIsSum ==
    LET cached == DOMAIN userStatsByName
        tagsCached == {tag \in Tags : \E k \in cached : tag \in DOMAIN userStatsByName[k].tagCount}
        memos(tag) == {<<k, i>> \in cached \X (1..MaxCount) :
                        /\ tag \in DOMAIN userStatsByName[k].tagCount
                        /\ i <= userStatsByName[k].tagCount[tag]}
    IN  /\ DOMAIN tagCount = tagsCached
        /\ \A tag \in tagsCached : tagCount[tag] = Cardinality(memos(tag))

\* Two cached entries, one tag in both and one tag in one of them only.
C13_Witness ==
    /\ Did("fetchUserStats", "resolve")
    /\ DOMAIN userStatsByName = Names
    /\ DOMAIN userStatsByName["users/1"].tagCount = Tags
    /\ DOMAIN userStatsByName["users/2"].tagCount = {"work"}
    /\ tagCount["work"] = 3
    /\ tagCount["home"] = 2

\* C14: the completion of fetchUserStats(A) writes the entry of A alone, the
\* completion of fetchUserStats() the entries of the accounts its response
\* lists: each fetched entry is cached as fetched, and every other entry of
\* the map held just before the completion, whoever wrote it, is still there
\* with the same value; no other key appears.
C14_FetchUserStatsFrame ==
    [][Does("fetchUserStats", {"resolve"})
        => LET fetchedKeys ==
                   IF lastOp'.arg = undefined
                   THEN {lastOp'.res[i].name : i \in DOMAIN lastOp'.res}
                   ELSE {lastOp'.arg}
           IN  /\ DOMAIN userStatsByName' = DOMAIN userStatsByName \cup fetchedKeys
               /\ \A k \in DOMAIN userStatsByName \ fetchedKeys :
                     userStatsByName'[k] = userStatsByName[k]
               /\ IF lastOp'.arg = undefined
                  THEN \A i \in DOMAIN lastOp'.res :
                         userStatsByName'[lastOp'.res[i].name] = lastOp'.res[i]
                  ELSE userStatsByName'[lastOp'.arg] = lastOp'.res]_vars

\* fetchUserStats(A) completed over a map that holds the entry of another
\* account, with another fetchUserStats still in flight.
C14_Witness ==
    /\ Did("fetchUserStats", "resolve")
    /\ lastOp.arg # undefined
    /\ DOMAIN userStatsByName = Names
    /\ \E t \in DOMAIN tasks : tasks[t].op = "fetchUserStats"

\* C15: when the session resolves to no account, the bootstrap ends there:
\* the current-account marker and the settings are absent and the Account
\* map is empty right after, whatever they held; the session call was the
\* only remote call of the bootstrap, the step suspends no further call, and
\* the workspace locale and appearance are not written.
C15_NoAccountResets ==
    /\ [](Did("initialUserStore", "return")
            => /\ currentUser = undefined
               /\ userSetting = NoObject
               /\ userMapByName = EmptyMap
               /\ lastOp.calls = 1)
    /\ [][Does("initialUserStore", {"return"})
            => /\ Len(tasks') = Len(tasks) - 1
               /\ UNCHANGED workspace]_vars

\* The session resolved to no account after an earlier bootstrap had set an
\* account, its settings and the workspace appearance and locale.
C15_Witness ==
    /\ Did("initialUserStore", "return")
    /\ workspace = [locale |-> "zh-Hans", appearance |-> "dark"]
    /\ tasks # <<>>

\* C16: when the session resolves to account U and the settings fetch for U
\* succeeds, right after the bootstrap the current-account marker is U.name,
\* the settings are the fetched ones, and the Account map has the one key
\* U.name with value U: nothing cached before is left.
C16_SuccessSeedsOneEntry ==
    Did("initialUserStore", "resolve") =>
        /\ lastOp.calls = 2
        /\ currentUser = lastOp.arg.name
        /\ \A f \in SettingFields : userSetting[f] = lastOp.res[f]
        /\ DOMAIN userMapByName = {lastOp.arg.name}
        /\ userMapByName[lastOp.arg.name] = lastOp.arg

\* A bootstrap succeeded while a lookup is suspended that holds the map
\* object the state was pointed away from, with both accounts cached in it.
C16_Witness ==
    /\ Did("initialUserStore", "resolve")
    /\ \E t \in DOMAIN tasks :
        /\ HoldsUserMap(tasks[t])
        /\ tasks[t].userMap # Live
        /\ DOMAIN tasks[t].userMap = Names

\* C17: every request that updateUserSetting sends carries, as the resource
\* name of the setting, the name of the account current when it is sent,
\* whether the caller's partial settings named that account, another one or
\* none; the other fields of the request are the caller's.
C17_RequestNamesCurrentUser ==
    [][Does("updateUserSetting", {"await"})
        => /\ tasks' = Append(tasks, tasks'[Len(tasks')])
           /\ tasks'[Len(tasks')].op = "updateUserSetting"
           /\ tasks'[Len(tasks')].arg.name = currentUser
           /\ tasks'[Len(tasks')].arg.locale = lastOp'.arg.locale
           /\ lastOp'.res = tasks'[Len(tasks')].arg]_vars

\* A request sent for partial settings that name another account than the
\* current one.
C17_Witness ==
    /\ Did("updateUserSetting", "await")
    /\ "name" \in DOMAIN lastOp.arg
    /\ lastOp.arg.name # currentUser
    /\ tasks[Len(tasks)].arg.name = currentUser

\* C18 as stated: right after updateInbox succeeds, the cached inbox
\* collection holds the response as its item named response.name, whatever
\* the collection held at completion.
C18_ResponseIsCached ==
    Did("updateInbox", "resolve") =>
        \E i \in DOMAIN inboxes : inboxes[i] = lastOp.res

\* C18 as amended: the completion of updateInbox replaces, wholesale and in
\* place, every cached item named response.name by the response; every other
\* item is unchanged and keeps its position, and no item is added: when no
\* cached item has that name at completion, the collection is left as it is.
C18_ReplacesCachedItem ==
    [][Does("updateInbox", {"resolve"})
        => /\ Len(inboxes') = Len(inboxes)
           /\ \A i \in DOMAIN inboxes :
                inboxes'[i] = IF inboxes[i].name = lastOp'.res.name
                              THEN lastOp'.res ELSE inboxes[i]
           /\ ((\A i \in DOMAIN inboxes : inboxes[i].name # lastOp'.res.name)
                    => inboxes' = inboxes)]_vars

\* The response took the place of the second of two cached items, and it is
\* not what the caller sent.
C18_Witness ==
    /\ Did("updateInbox", "resolve")
    /\ Len(inboxes) = 2
    /\ inboxes[2] = lastOp.res
    /\ inboxes[1].name # lastOp.res.name
    /\ lastOp.res.status # lastOp.arg.status

\* C19: a getOrFetchUserByName(n) made while n is not cached issues its own
\* getUser call, also when another getOrFetchUserByName(n) is suspended at
\* its await already (no coalescing: one more call is suspended); every
\* completion of such a call writes the Account map, whose entry at n is then
\* the response of that completion: after two of them, that of the second.
C19_NoCoalescingLastWins ==
    /\ [][(Does("getOrFetchUserByName", {"return", "await"})
            /\ lastOp'.arg \notin DOMAIN userMapByName)
           => /\ lastOp'.out = "await"
              /\ lastOp'.calls = 1
              /\ tasks' = Append(tasks, Task("getOrFetchUserByName", "getUser",
                                              lastOp'.arg, Live, 1))]_vars
    /\ [][Does("getOrFetchUserByName", {"resolve"})
           => /\ lastOp'.arg \in DOMAIN userMapByName'
              /\ userMapByName'[lastOp'.arg] = lastOp'.res]_vars

\* Two calls for the same uncached name were suspended together; one has
\* completed and cached its response, the other is still to complete and
\* holds the map object from before that write.
C19_Witness ==
    /\ Did("getOrFetchUserByName", "resolve")
    /\ lastOp.calls = 1
    /\ Len(tasks) = 1
    /\ tasks[1].op = "getOrFetchUserByName"
    /\ tasks[1].arg = lastOp.arg
    /\ tasks[1].calls = 1
    /\ tasks[1].userMap # Live
    /\ lastOp.arg \notin DOMAIN tasks[1].userMap

\* C20: the completion of a getOrFetchUserByName or getOrFetchUserByUsername
\* call that fetched an entity writes the Account map entry at its key k (the
\* name asked for, or the name of the entity the search found) and no other:
\* every other name is cached right after the completion exactly if it was
\* right before, and with the same value, whatever completed while the call
\* was in flight.
C20_LookupWritesOneKey ==
    [][(Does("getOrFetchUserByName", {"resolve"}) \/ Does("getOrFetchUserByUsername", {"resolve"}))
        => LET k == IF lastOp'.op = "getOrFetchUserByName"
                    THEN lastOp'.arg ELSE lastOp'.res.name
           IN  \A other \in Names \ {k} :
                 /\ (other \in DOMAIN userMapByName') = (other \in DOMAIN userMapByName)
                 /\ other \in DOMAIN userMapByName
                        => userMapByName'[other] = userMapByName[other]]_vars
====
